---- MODULE Spec2Model ----
(***************************************************************************)
(* Job-board canister (src/src/index.ts, the validated handlers of lines   *)
(* 42-282): two StableBTreeMaps, jobsStorage and applicationsStorage, and  *)
(* the express handlers that read and write them.  Each handler runs to    *)
(* completion, so each handler is one action.                              *)
(*                                                                         *)
(* The file also holds an earlier copy of the same handlers (lines         *)
(* 284-495), which spreads req.body into the records and validates         *)
(* nothing, and a detached fragment of it (lines 215-225).  The model is   *)
(* of the validated handlers.                                              *)
(*                                                                         *)
(* Strings the code inspects character by character (email patterns, the   *)
(* trim/toLowerCase/toUpperCase of the list filters) are sequences of      *)
(* one-character strings.  Strings the code only copies are TLA+ strings.  *)
(* An optional JSON value is <<>> (undefined) or <<v>>.                    *)
(***************************************************************************)
EXTENDS Integers, Sequences, FiniteSets, TLC

\* ---------------------------------------------------------------- bounds
MaxUuid == 3        \* uuidv4() calls made in a run (jobs plus applications)
MaxJobs == 2        \* job posts created in a run
MaxTicks == 1       \* advances of ic.time()
TickNs == 1500000   \* nanoseconds per advance of ic.time()
MaxWrites == 1      \* successful PUT and DELETE requests in a run

NsPerMs == 1000000

Ids == 1..MaxUuid

VARIABLES jobsStorage, applicationsStorage, uuidCounter, time, res,
          deleted, pristine, writes

vars == <<jobsStorage, applicationsStorage, uuidCounter, time, res,
          deleted, pristine, writes>>

\* ------------------------------------------------------- optional values
None == <<>>
Some(v) == <<v>>
IsSome(o) == o /= <<>>

\* ------------------------------------------------------------ characters
LowerChars == <<"a","b","c","d","e","f","g","h","i","j","k","l","m",
                "n","o","p","q","r","s","t","u","v","w","x","y","z">>
UpperChars == <<"A","B","C","D","E","F","G","H","I","J","K","L","M",
                "N","O","P","Q","R","S","T","U","V","W","X","Y","Z">>
WhiteSpace == {" ", "\t", "\n"}

toLowerChar(c) ==
  IF \E i \in 1..26 : UpperChars[i] = c
    THEN LowerChars[CHOOSE i \in 1..26 : UpperChars[i] = c]
    ELSE c

toUpperChar(c) ==
  IF \E i \in 1..26 : LowerChars[i] = c
    THEN UpperChars[CHOOSE i \in 1..26 : LowerChars[i] = c]
    ELSE c

toLowerCase(s) == [i \in 1..Len(s) |-> toLowerChar(s[i])]
toUpperCase(s) == [i \in 1..Len(s) |-> toUpperChar(s[i])]

\* String.prototype.trim: drop leading and trailing white space.
trim(s) ==
  LET keep == {i \in 1..Len(s) : s[i] \notin WhiteSpace}
  IN IF keep = {} THEN <<>>
     ELSE LET lo == CHOOSE i \in keep : \A k \in keep : i <= k
              hi == CHOOSE i \in keep : \A k \in keep : i >= k
          IN SubSeq(s, lo, hi)

\* /^[^\s@]+@[^\s@]+\.[^\s@]+$/.test(s): the only "@" of s is at i, a "."
\* at k follows it, with a character before i, between i and k and after k.
EmailPattern(s) ==
  \E i \in 1..Len(s), k \in 1..Len(s) :
    /\ s[i] = "@"
    /\ s[k] = "."
    /\ 1 < i
    /\ i + 1 < k
    /\ k < Len(s)
    /\ \A m \in 1..Len(s) : s[m] \notin WhiteSpace /\ (m /= i => s[m] /= "@")

\* ------------------------------------------------------ enumerated values
ACTIVE == <<"A","C","T","I","V","E">>
CLOSED == <<"C","L","O","S","E","D">>
DRAFT == <<"D","R","A","F","T">>
JobStatuses == {ACTIVE, CLOSED, DRAFT}

FULL_TIME == <<"F","U","L","L","_","T","I","M","E">>
CONTRACT == <<"C","O","N","T","R","A","C","T">>

\* ------------------------------------------------------------------ time
\* getCurrentDate(): ic.time() is in nanoseconds; new Date(ns / 1000_000)
\* keeps the whole milliseconds.
getCurrentDate(t) == t \div NsPerMs

\* --------------------------------------------------------------- storage
\* StableBTreeMap.values(): the records in key order.
RECURSIVE SortedKeys(_)
SortedKeys(S) ==
  IF S = {} THEN <<>>
  ELSE LET m == CHOOSE x \in S : \A y \in S : x <= y
       IN <<m>> \o SortedKeys(S \ {m})

values(store) ==
  LET ks == SortedKeys(DOMAIN store)
  IN [i \in 1..Len(ks) |-> store[ks[i]]]

\* StableBTreeMap.insert(key, value): creates or replaces.
insert(store, key, value) ==
  [k \in (DOMAIN store) \cup {key} |-> IF k = key THEN value ELSE store[k]]

\* StableBTreeMap.remove(key)
remove(store, key) == [k \in (DOMAIN store) \ {key} |-> store[k]]

\* --------------------------------------------------------------- responses
\* res.status(code).send(text) / res.json(value); an exception thrown by a
\* handler is answered by express with status 500.
Reply(code, body) == [status |-> code, body |-> body]

\* The body of res.send(text), of the two "not found" texts with their id,
\* and of res.json(list).
Text(t) == [text |-> t]
JobNotFound(jobId) == [text |-> "Job with id= not found", id |-> jobId]
ApplicationNotFound(applicationId) ==
  [text |-> "Application with id= not found", id |-> applicationId]
Items(list) == [items |-> list]

\* Requests are handled one at a time: a handler runs when no response is
\* waiting to be sent.
NoResponse == Reply(0, Text(""))
Idle == res = NoResponse

\* ------------------------------------------------------ POST /jobs inputs
\* req.body of POST /jobs.  A string field that is "" stands for an empty or
\* missing field (both are falsy); requirements and salary are optional
\* values; id, status and applicants are fields a caller may add.
EngCategory == <<"E","n","g">>
OpsCategory == <<"o","p","s">>
GoodEmail == <<"a","@","b",".","c">>

BaseBody ==
  [title |-> "Engineer", company |-> "Acme", location |-> "Remote",
   description |-> "Build things", requirements |-> Some(<<"TS">>),
   salary |-> Some([min |-> 1000, max |-> 2000, currency |-> "USD"]),
   employmentType |-> FULL_TIME, category |-> EngCategory,
   contactEmail |-> GoodEmail,
   id |-> None, status |-> None, applicants |-> None]

OtherBody ==
  [BaseBody EXCEPT !.salary = Some([min |-> 0, max |-> 0, currency |-> "EUR"]),
                   !.employmentType = CONTRACT, !.category = OpsCategory,
                   !.id = Some(1), !.status = Some(CLOSED),
                   !.applicants = Some(<<3>>)]

CreateBodies ==
  { BaseBody, OtherBody,
    [BaseBody EXCEPT !.title = ""],
    [BaseBody EXCEPT !.company = ""],
    [BaseBody EXCEPT !.location = ""],
    [BaseBody EXCEPT !.description = ""],
    [BaseBody EXCEPT !.requirements = None],
    [BaseBody EXCEPT !.contactEmail = <<>>],
    [BaseBody EXCEPT !.contactEmail = <<"a","@","b">>],
    [BaseBody EXCEPT !.contactEmail = <<"a"," ","@","b",".","c">>],
    [BaseBody EXCEPT !.salary = None],
    [BaseBody EXCEPT !.salary = Some([min |-> -1, max |-> 2000, currency |-> "USD"])],
    [BaseBody EXCEPT !.salary = Some([min |-> 1000, max |-> 999, currency |-> "USD"])],
    [BaseBody EXCEPT !.salary = Some([min |-> 1000, max |-> 2000, currency |-> "GBP"])] }

\* ----------------------------------------------------------- POST /jobs
\* Lines 51-53: the required fields.
MissingRequired(b) ==
  \/ b.title = ""
  \/ b.company = ""
  \/ b.location = ""
  \/ b.description = ""
  \/ ~IsSome(b.requirements)
  \/ b.contactEmail = <<>>

\* Lines 59-61: the salary check.
InvalidSalary(sal) ==
  \/ sal.min < 0
  \/ sal.max < sal.min
  \/ sal.currency \notin {"USD", "EUR"}

\* The outcome of the validation of lines 51-61: 200 when the body passes,
\* 500 when reading salary.min of a missing salary throws.
CreateStatus(b) ==
  IF MissingRequired(b) THEN 400
  ELSE IF ~EmailPattern(b.contactEmail) THEN 400
  ELSE IF ~IsSome(b.salary) THEN 500
  ELSE IF InvalidSalary(b.salary[1]) THEN 400
  ELSE 200

CreateError(b) ==
  IF MissingRequired(b) THEN "All required fields must be provided."
  ELSE IF ~EmailPattern(b.contactEmail) THEN "Invalid email format."
  ELSE IF ~IsSome(b.salary) THEN "TypeError"
  ELSE "Invalid salary information."

\* A create that spreads req.body over the server-assigned fields.
NewJobPostSpread(b, id, now) ==
  [id |-> IF IsSome(b.id) THEN b.id[1] ELSE id,
   title |-> b.title,
   company |-> b.company,
   location |-> b.location,
   description |-> b.description,
   requirements |-> b.requirements[1],
   salary |-> b.salary[1],
   employmentType |-> b.employmentType,
   category |-> b.category,
   contactEmail |-> b.contactEmail,
   createdAt |-> now,
   updatedAt |-> None,
   status |-> IF IsSome(b.status) THEN b.status[1] ELSE ACTIVE,
   applicants |-> IF IsSome(b.applicants) THEN b.applicants[1] ELSE <<>>]

\* Lines 63-78: the record built from the destructured fields.
NewJobPost(b, id, now) ==
  [id |-> id,
   title |-> b.title,
   company |-> b.company,
   location |-> b.location,
   description |-> b.description,
   requirements |-> b.requirements[1],
   salary |-> b.salary[1],
   employmentType |-> b.employmentType,
   category |-> b.category,
   contactEmail |-> b.contactEmail,
   createdAt |-> now,
   updatedAt |-> None,
   status |-> ACTIVE,
   applicants |-> <<>>]

\* uuidv4(): an identifier no earlier call returned.
uuidv4(counter) == counter + 1

JobsCreated == Cardinality(DOMAIN jobsStorage \cup deleted)

CreateJob(b) ==
  /\ Idle
  /\ IF CreateStatus(b) /= 200
         THEN /\ res' = Reply(CreateStatus(b), Text(CreateError(b)))
              /\ UNCHANGED <<jobsStorage, applicationsStorage, uuidCounter, time,
                             deleted, pristine, writes>>
         ELSE /\ uuidCounter < MaxUuid
              /\ JobsCreated < MaxJobs
              /\ LET jobPost == NewJobPost(b, uuidv4(uuidCounter), getCurrentDate(time))
                 IN /\ jobsStorage' = insert(jobsStorage, jobPost.id, jobPost)
                    /\ res' = Reply(200, jobPost)
                    /\ pristine' = insert(pristine, jobPost.id,
                                          [input |-> b, at |-> time])
              /\ uuidCounter' = uuidv4(uuidCounter)
              /\ UNCHANGED <<applicationsStorage, time, deleted, writes>>

\* ------------------------------------------------------- GET /jobs/:id
GetJobResponse(store, jobId) ==
  IF jobId \notin DOMAIN store
    THEN Reply(404, JobNotFound(jobId))
    ELSE Reply(200, store[jobId])

GetJob(jobId) ==
  /\ Idle
  /\ res' = GetJobResponse(jobsStorage, jobId)
  /\ UNCHANGED <<jobsStorage, applicationsStorage, uuidCounter, time,
                 deleted, pristine, writes>>

\* ------------------------------------------------ PUT /jobs/:id inputs
\* A JSON value whose type the handler tests: undefined, a string or a
\* number (val is its text).
Undefined == [type |-> "undefined", val |-> ""]
Str(s) == [type |-> "string", val |-> s]
Num(s) == [type |-> "number", val |-> s]

\* JavaScript truthiness of such a value.
Truthy(v) ==
  \/ v.type = "string" /\ v.val /= ""
  \/ v.type = "number" /\ v.val /= "0"

EmptyUpdate ==
  [title |-> Undefined, description |-> Undefined, requirements |-> None,
   salary |-> None, status |-> None, applicants |-> None, company |-> None]

BadSalary == [min |-> -5, max |-> -9, currency |-> "XXX"]

UpdateBodies ==
  { [EmptyUpdate EXCEPT !.title = Str("Lead")],
    [EmptyUpdate EXCEPT !.title = Str("")],
    [EmptyUpdate EXCEPT !.title = Num("42")],
    [EmptyUpdate EXCEPT !.title = Num("0")],
    [EmptyUpdate EXCEPT !.description = Str("New text")],
    [EmptyUpdate EXCEPT !.description = Num("42")],
    [EmptyUpdate EXCEPT !.requirements = Some(<<>>)],
    [EmptyUpdate EXCEPT !.salary = Some(BadSalary)],
    [EmptyUpdate EXCEPT !.status = Some(CLOSED)],
    [EmptyUpdate EXCEPT !.status = Some(DRAFT)],
    [EmptyUpdate EXCEPT !.status = Some(ACTIVE)],
    [EmptyUpdate EXCEPT !.status = Some(<<"O","P","E","N">>)],
    [EmptyUpdate EXCEPT !.status = Some(<<>>)],
    [EmptyUpdate EXCEPT !.applicants = Some(<<1>>), !.company = Some("Evil")],
    [EmptyUpdate EXCEPT !.title = Str("Lead"), !.status = Some(CLOSED)] }

\* -------------------------------------------------------- PUT /jobs/:id
\* Truthiness of an optional string: present and not "".
NonEmpty(st) == IsSome(st) /\ st[1] /= <<>>

\* An update that does not check the status.
UpdateErrorNoStatus(b) ==
  IF Truthy(b.title) /\ b.title.type /= "string" THEN "Invalid title format."
  ELSE IF Truthy(b.description) /\ b.description.type /= "string"
    THEN "Invalid description format."
  ELSE ""

\* Lines 130-132: the first failing check, "" when all pass.
UpdateError(b) ==
  IF Truthy(b.title) /\ b.title.type /= "string" THEN "Invalid title format."
  ELSE IF Truthy(b.description) /\ b.description.type /= "string"
    THEN "Invalid description format."
  ELSE IF NonEmpty(b.status) /\ b.status[1] \notin {ACTIVE, CLOSED, DRAFT}
    THEN "Invalid status value."
  ELSE ""

\* An update that spreads req.body over the stored record.
MergeJobSpread(job, b, now) ==
  [job EXCEPT
     !.title = IF Truthy(b.title) THEN b.title.val ELSE job.title,
     !.description = IF Truthy(b.description) THEN b.description.val
                     ELSE job.description,
     !.requirements = IF IsSome(b.requirements) THEN b.requirements[1]
                      ELSE job.requirements,
     !.salary = IF IsSome(b.salary) THEN b.salary[1] ELSE job.salary,
     !.status = IF NonEmpty(b.status) THEN b.status[1] ELSE job.status,
     !.applicants = IF IsSome(b.applicants) THEN b.applicants[1] ELSE job.applicants,
     !.company = IF IsSome(b.company) THEN b.company[1] ELSE job.company,
     !.updatedAt = Some(now)]

\* Lines 134-142: the merged record.
MergeJob(job, b, now) ==
  [job EXCEPT
     !.title = IF Truthy(b.title) THEN b.title.val ELSE job.title,
     !.description = IF Truthy(b.description) THEN b.description.val
                     ELSE job.description,
     !.requirements = IF IsSome(b.requirements) THEN b.requirements[1]
                      ELSE job.requirements,
     !.salary = IF IsSome(b.salary) THEN b.salary[1] ELSE job.salary,
     !.status = IF NonEmpty(b.status) THEN b.status[1] ELSE job.status,
     !.updatedAt = Some(now)]

UpdateJob(jobId, b) ==
  /\ Idle
  /\ IF jobId \notin DOMAIN jobsStorage
         THEN /\ res' = Reply(404, JobNotFound(jobId))
              /\ UNCHANGED <<jobsStorage, applicationsStorage, uuidCounter, time,
                             deleted, pristine, writes>>
       ELSE IF UpdateError(b) /= ""
         THEN /\ res' = Reply(400, Text(UpdateError(b)))
              /\ UNCHANGED <<jobsStorage, applicationsStorage, uuidCounter, time,
                             deleted, pristine, writes>>
       ELSE /\ writes < MaxWrites
            /\ LET job == jobsStorage[jobId]
                   updatedJob == MergeJob(job, b, getCurrentDate(time))
               IN /\ jobsStorage' = insert(jobsStorage, job.id, updatedJob)
                  /\ res' = Reply(200, updatedJob)
            /\ pristine' = remove(pristine, jobId)
            /\ writes' = writes + 1
            /\ UNCHANGED <<applicationsStorage, uuidCounter, time, deleted>>

\* ----------------------------------------------------- DELETE /jobs/:id
\* A delete that answers with the job and leaves it stored.
DeleteJobKeeps(jobId) ==
  /\ Idle
  /\ IF jobId \notin DOMAIN jobsStorage
       THEN /\ res' = Reply(404, JobNotFound(jobId))
            /\ UNCHANGED <<jobsStorage, applicationsStorage, uuidCounter, time,
                           deleted, pristine, writes>>
       ELSE /\ writes < MaxWrites
            /\ res' = Reply(200, jobsStorage[jobId])
            /\ deleted' = deleted \cup {jobId}
            /\ pristine' = remove(pristine, jobId)
            /\ writes' = writes + 1
            /\ UNCHANGED <<jobsStorage, applicationsStorage, uuidCounter, time>>

DeleteJob(jobId) ==
  /\ Idle
  /\ IF jobId \notin DOMAIN jobsStorage
         THEN /\ res' = Reply(404, JobNotFound(jobId))
              /\ UNCHANGED <<jobsStorage, applicationsStorage, uuidCounter, time,
                             deleted, pristine, writes>>
         ELSE /\ writes < MaxWrites
              /\ jobsStorage' = remove(jobsStorage, jobId)
              /\ res' = Reply(200, jobsStorage[jobId])
              /\ deleted' = deleted \cup {jobId}
              /\ pristine' = remove(pristine, jobId)
              /\ writes' = writes + 1
              /\ UNCHANGED <<applicationsStorage, uuidCounter, time>>

\* --------------------------------------------- POST /jobs/:jobId/apply inputs
JaneEmail == <<"j","@","x",".","c">>
KimEmail == <<"k","@","x",".","c">>

JaneBody ==
  [applicantName |-> "Jane", email |-> JaneEmail, phone |-> "123",
   resumeUrl |-> "http://r.com/r.pdf", coverLetter |-> "Hi"]

ApplyBodies ==
  { JaneBody,
    [JaneBody EXCEPT !.applicantName = "Janet", !.phone = "", !.coverLetter = ""],
    [JaneBody EXCEPT !.applicantName = "Kim", !.email = KimEmail],
    [JaneBody EXCEPT !.applicantName = ""],
    [JaneBody EXCEPT !.email = <<>>],
    [JaneBody EXCEPT !.resumeUrl = ""],
    [JaneBody EXCEPT !.email = <<"j","@","x">>] }

\* ----------------------------------------------- POST /jobs/:jobId/apply
\* A duplicate check with the jobId comparison inverted.
existingApplicationsAnyJob(apps, jobId, email) ==
  LET Same(a) == a.jobId /= jobId /\ a.email = email
  IN SelectSeq(values(apps), Same)

\* Lines 186-188: the stored applications with this jobId and email.
existingApplications(apps, jobId, email) ==
  LET Same(a) == a.jobId = jobId /\ a.email = email
  IN SelectSeq(values(apps), Same)

\* An apply that does not look at the job's status.
ApplyCheckAnyStatus(jobs, apps, jobId, b) ==
  IF jobId \notin DOMAIN jobs THEN <<404, JobNotFound(jobId)>>
  ELSE IF b.applicantName = "" \/ b.email = <<>> \/ b.resumeUrl = ""
    THEN <<400, Text("Applicant name, email, and resume URL are required.")>>
  ELSE IF ~EmailPattern(b.email) THEN <<400, Text("Invalid email format.")>>
  ELSE IF Len(existingApplications(apps, jobId, b.email)) > 0
    THEN <<400, Text("You have already applied for this job.")>>
  ELSE <<200, Text("")>>

\* Lines 164-191: the first failing check as <<status, body>>, status 200
\* when all pass.
ApplyCheck(jobs, apps, jobId, b) ==
  IF jobId \notin DOMAIN jobs THEN <<404, JobNotFound(jobId)>>
  ELSE IF jobs[jobId].status /= ACTIVE
    THEN <<400, Text("This job posting is no longer accepting applications.")>>
  ELSE IF b.applicantName = "" \/ b.email = <<>> \/ b.resumeUrl = ""
    THEN <<400, Text("Applicant name, email, and resume URL are required.")>>
  ELSE IF ~EmailPattern(b.email) THEN <<400, Text("Invalid email format.")>>
  ELSE IF Len(existingApplications(apps, jobId, b.email)) > 0
    THEN <<400, Text("You have already applied for this job.")>>
  ELSE <<200, Text("")>>

\* Lines 193-204
NewApplication(b, id, jobId, now) ==
  [id |-> id,
   jobId |-> jobId,
   applicantName |-> b.applicantName,
   email |-> b.email,
   phone |-> b.phone,
   resumeUrl |-> b.resumeUrl,
   coverLetter |-> b.coverLetter,
   status |-> Some("PENDING"),
   createdAt |-> now,
   updatedAt |-> None]

\* An apply that stores the application before it looks for a duplicate.
ApplyJobStoresFirst(jobId, b) ==
  /\ Idle
  /\ LET chk == ApplyCheck(jobsStorage, applicationsStorage, jobId, b)
         application == NewApplication(b, uuidv4(uuidCounter), jobId,
                                       getCurrentDate(time))
     IN IF chk[1] /= 200 /\ chk[2] /= Text("You have already applied for this job.")
          THEN /\ res' = Reply(chk[1], chk[2])
               /\ UNCHANGED <<jobsStorage, applicationsStorage, uuidCounter, time,
                              deleted, pristine, writes>>
          ELSE /\ uuidCounter < MaxUuid
               /\ applicationsStorage' =
                    insert(applicationsStorage, application.id, application)
               /\ uuidCounter' = uuidv4(uuidCounter)
               /\ pristine' = remove(pristine, jobId)
               /\ IF chk[1] /= 200
                    THEN /\ res' = Reply(chk[1], chk[2])
                         /\ UNCHANGED jobsStorage
                    ELSE /\ jobsStorage' =
                              insert(jobsStorage, jobId,
                                     [jobsStorage[jobId] EXCEPT
                                        !.applicants = Append(@, application.id)])
                         /\ res' = Reply(200, application)
               /\ UNCHANGED <<time, deleted, writes>>

ApplyJob(jobId, b) ==
  /\ Idle
  /\ LET chk == ApplyCheck(jobsStorage, applicationsStorage, jobId, b)
       IN IF chk[1] /= 200
            THEN /\ res' = Reply(chk[1], chk[2])
                 /\ UNCHANGED <<jobsStorage, applicationsStorage, uuidCounter, time,
                                deleted, pristine, writes>>
            ELSE /\ uuidCounter < MaxUuid
                 /\ LET job == jobsStorage[jobId]
                        application == NewApplication(b, uuidv4(uuidCounter), jobId,
                                                      getCurrentDate(time))
                    IN /\ applicationsStorage' =
                            insert(applicationsStorage, application.id, application)
                       /\ jobsStorage' =
                            insert(jobsStorage, jobId,
                                   [job EXCEPT !.applicants = Append(@, application.id)])
                       /\ res' = Reply(200, application)
                 /\ uuidCounter' = uuidv4(uuidCounter)
                 /\ pristine' = remove(pristine, jobId)
                 /\ UNCHANGED <<time, deleted, writes>>

\* ------------------------------------------------- GET /applications/:id
GetApplication(applicationId) ==
  /\ Idle
  /\ res' = IF applicationId \notin DOMAIN applicationsStorage
              THEN Reply(404, ApplicationNotFound(applicationId))
              ELSE Reply(200, applicationsStorage[applicationId])
  /\ UNCHANGED <<jobsStorage, applicationsStorage, uuidCounter, time,
                 deleted, pristine, writes>>

\* ------------------------------------------ GET /jobs/:jobId/applications
ListApplications(jobId) ==
  /\ Idle
  /\ res' = IF jobId \notin DOMAIN jobsStorage
              THEN Reply(404, JobNotFound(jobId))
              ELSE LET OfJob(a) == a.jobId = jobId
                   IN Reply(200, Items(SelectSeq(values(applicationsStorage), OfJob)))
  /\ UNCHANGED <<jobsStorage, applicationsStorage, uuidCounter, time,
                 deleted, pristine, writes>>

\* -------------------------------------------- PUT /applications/:id/status
\* req.body.status: any supplied string, or undefined.
StatusBodies == {Some("HIRED"), None}

UpdateApplicationStatus(applicationId, status) ==
  /\ Idle
  /\ IF applicationId \notin DOMAIN applicationsStorage
         THEN /\ res' = Reply(404, ApplicationNotFound(applicationId))
              /\ UNCHANGED <<jobsStorage, applicationsStorage, uuidCounter, time,
                             deleted, pristine, writes>>
         ELSE /\ writes < MaxWrites
              /\ LET application == applicationsStorage[applicationId]
                     updatedApplication ==
                       [application EXCEPT !.status = status,
                                           !.updatedAt = Some(getCurrentDate(time))]
                 IN /\ applicationsStorage' =
                         insert(applicationsStorage, applicationId, updatedApplication)
                    /\ res' = Reply(200, updatedApplication)
              /\ writes' = writes + 1
              /\ UNCHANGED <<jobsStorage, uuidCounter, time, deleted, pristine>>

\* ------------------------------------------------------- GET /jobs inputs
\* req.query: each of category, employmentType and status absent or a string.
NoQuery == [category |-> None, employmentType |-> None, status |-> None]

Queries ==
  { NoQuery,
    [NoQuery EXCEPT !.category = Some(<<"e","n","g">>)],
    [NoQuery EXCEPT !.status = Some(ACTIVE)],
    [NoQuery EXCEPT !.category = Some(<<" ","E","N","G"," ">>)],
    [NoQuery EXCEPT !.category = Some(<<" ">>)],
    [NoQuery EXCEPT !.employmentType = Some(FULL_TIME)],
    [NoQuery EXCEPT !.employmentType = Some(<<"c","o","n","t","r","a","c","t">>)],
    [NoQuery EXCEPT !.status = Some(<<"c","l","o","s","e","d">>)],
    [NoQuery EXCEPT !.category = Some(OpsCategory), !.status = Some(DRAFT)],
    [NoQuery EXCEPT !.category = Some(<<"e","n","g">>),
                    !.employmentType = Some(FULL_TIME), !.status = Some(ACTIVE)],
    [NoQuery EXCEPT !.category = Some(<<"e","n","g">>),
                    !.employmentType = Some(CONTRACT)] }

\* ---------------------------------------------------------------- GET /jobs
\* Lines 85-87: x?.toString().trim().toLowerCase() and its upper-case twin.
lowerParam(p) == IF IsSome(p) THEN Some(toLowerCase(trim(p[1]))) ELSE None
upperParam(p) == IF IsSome(p) THEN Some(toUpperCase(trim(p[1]))) ELSE None

\* A list that compares the raw query values with the stored fields.
ListJobsResultRaw(store, q) ==
  LET ByCategory(job) == job.category = q.category[1]
      ByType(job) == job.employmentType = q.employmentType[1]
      ByStatus(job) == job.status = q.status[1]
      jobs0 == values(store)
      jobs1 == IF NonEmpty(q.category) THEN SelectSeq(jobs0, ByCategory) ELSE jobs0
      jobs2 == IF NonEmpty(q.employmentType) THEN SelectSeq(jobs1, ByType) ELSE jobs1
  IN IF NonEmpty(q.status) THEN SelectSeq(jobs2, ByStatus) ELSE jobs2

\* Lines 89-99: the three filters, each applied when its parameter is truthy.
ListJobsResult(store, q) ==
  LET category == lowerParam(q.category)
      employmentType == upperParam(q.employmentType)
      status == upperParam(q.status)
      ByCategory(job) == toLowerCase(job.category) = category[1]
      ByType(job) == job.employmentType = employmentType[1]
      ByStatus(job) == job.status = status[1]
      jobs0 == values(store)
      jobs1 == IF NonEmpty(category) THEN SelectSeq(jobs0, ByCategory) ELSE jobs0
      jobs2 == IF NonEmpty(employmentType) THEN SelectSeq(jobs1, ByType) ELSE jobs1
  IN IF NonEmpty(status) THEN SelectSeq(jobs2, ByStatus) ELSE jobs2

ListJobs(q) ==
  /\ Idle
  /\ res' = Reply(200, Items(ListJobsResult(jobsStorage, q)))
  /\ UNCHANGED <<jobsStorage, applicationsStorage, uuidCounter, time,
                 deleted, pristine, writes>>

\* ------------------------------------------------------------ environment
\* Send completes the exchange of a request and its response.
Send ==
  /\ ~Idle
  /\ res' = NoResponse
  /\ UNCHANGED <<jobsStorage, applicationsStorage, uuidCounter, time,
                 deleted, pristine, writes>>

\* ic.time() never goes back; it advances between requests.
Tick ==
  /\ Idle
  /\ time < MaxTicks * TickNs
  /\ time' = time + TickNs
  /\ UNCHANGED <<jobsStorage, applicationsStorage, uuidCounter, res,
                 deleted, pristine, writes>>

\* ---------------------------------------------------------- specification
EmptyMap == [k \in {} |-> 0]

Init ==
  /\ jobsStorage = EmptyMap
  /\ applicationsStorage = EmptyMap
  /\ uuidCounter = 0
  /\ time = 0
  /\ res = NoResponse
  /\ deleted = {}
  /\ pristine = EmptyMap
  /\ writes = 0

Next ==
  \/ \E b \in CreateBodies : CreateJob(b)
  \/ \E q \in Queries : ListJobs(q)
  \/ \E id \in Ids : GetJob(id)
  \/ \E id \in Ids, b \in UpdateBodies : UpdateJob(id, b)
  \/ \E id \in Ids : DeleteJob(id)
  \/ \E id \in Ids, b \in ApplyBodies : ApplyJob(id, b)
  \/ \E id \in Ids : GetApplication(id)
  \/ \E id \in Ids : ListApplications(id)
  \/ \E id \in Ids, st \in StatusBodies : UpdateApplicationStatus(id, st)
  \/ Send
  \/ Tick

Spec == Init /\ [][Next]_vars

\* ================================================================= claims

StorageUnchanged ==
  /\ jobsStorage' = jobsStorage
  /\ applicationsStorage' = applicationsStorage

Duplicate(jobId, email) ==
  \E a \in DOMAIN applicationsStorage :
    /\ applicationsStorage[a].jobId = jobId
    /\ applicationsStorage[a].email = email

\* ---------------------------------------------------------------------- C1
C1_Unique ==
  \A a1, a2 \in DOMAIN applicationsStorage :
    (/\ applicationsStorage[a1].jobId = applicationsStorage[a2].jobId
     /\ applicationsStorage[a1].email = applicationsStorage[a2].email) => a1 = a2

C1_Rejects ==
  \A j \in DOMAIN jobsStorage, b \in ApplyBodies :
    (Duplicate(j, b.email) /\ ApplyJob(j, b)) =>
      (res'.status = 400 /\ StorageUnchanged)

C2_SalaryInvariant ==
  \A j \in DOMAIN jobsStorage :
    /\ jobsStorage[j].salary.min >= 0
    /\ jobsStorage[j].salary.max >= jobsStorage[j].salary.min

\* ---------------------------------------------------------------------- C3
\* C3: every identifier in a stored job's applicants list is the id of a
\* stored application whose jobId is that job's id.
C3_ApplicantsReferToOwnApplications ==
  \A j \in DOMAIN jobsStorage :
    \A i \in 1..Len(jobsStorage[j].applicants) :
      LET a == jobsStorage[j].applicants[i]
      IN /\ a \in DOMAIN applicationsStorage
         /\ applicationsStorage[a].jobId = jobsStorage[j].id
         /\ jobsStorage[j].id = j

\* Two jobs are stored, one of them with an applicant, and it has been updated.
C3_Witness ==
  /\ Cardinality(DOMAIN jobsStorage) = 2
  /\ \E j \in DOMAIN jobsStorage :
       /\ jobsStorage[j].applicants /= <<>>
       /\ IsSome(jobsStorage[j].updatedAt)

\* ---------------------------------------------------------------------- C4
\* C4: the jobId of every stored application is the id of a stored job post.
C4_ApplicationJobExists ==
  \A a \in DOMAIN applicationsStorage :
    applicationsStorage[a].jobId \in DOMAIN jobsStorage

\* ---------------------------------------------------------------------- C5
C5_Gone ==
  \A id \in deleted : GetJobResponse(jobsStorage, id).status = 404

C5_Step ==
  \A id \in deleted :
    /\ GetJob(id) => res'.status = 404
    /\ id \notin DOMAIN jobsStorage'
    /\ \A b \in UpdateBodies :
         UpdateJob(id, b) => (res'.status = 404 /\ StorageUnchanged)
    /\ \A b \in ApplyBodies :
         ApplyJob(id, b) => (res'.status = 404 /\ StorageUnchanged)

\* C5: once DELETE /jobs/:id has succeeded, GET /jobs/:id answers 404 ever
\* after: no create reuses the id, and PUT and apply on it answer 404 and
\* insert nothing.
C5_DeletedStaysGone == [][C5_Step /\ C5_Gone']_vars

\* A job was deleted, another was created afterwards, and a request on the
\* deleted id has just been answered 404.
C5_Witness ==
  /\ res.status = 404
  /\ \E id \in deleted :
       /\ res.body = JobNotFound(id)
       /\ \E j \in DOMAIN jobsStorage : j > id

\* ---------------------------------------------------------------------- C6
C6_Step ==
  \A j \in DOMAIN jobsStorage :
    jobsStorage[j].status /= ACTIVE =>
      /\ \A b \in ApplyBodies :
           ApplyJob(j, b) => (res'.status = 400 /\ StorageUnchanged)
      /\ j \in DOMAIN jobsStorage' =>
           jobsStorage'[j].applicants = jobsStorage[j].applicants
      /\ \A a \in DOMAIN applicationsStorage' :
           applicationsStorage'[a].jobId = j => a \in DOMAIN applicationsStorage

\* C6: while a stored job's status is not ACTIVE, every apply to it is
\* answered 400, whatever the body, and the job gains no application and no
\* applicant.
C6_InactiveJobRejectsApply == [][C6_Step]_vars

\* An apply to a CLOSED or DRAFT job has just been refused.
C6_Witness ==
  /\ res.status = 400
  /\ res.body = Text("This job posting is no longer accepting applications.")
  /\ \E j \in DOMAIN jobsStorage : jobsStorage[j].status \in {CLOSED, DRAFT}

\* ---------------------------------------------------------------------- C7
\* The record the claim expects, createdAt aside, for a job created from body
\* b under id.
C7_Expected(b, id) ==
  [id |-> id,
   title |-> b.title,
   company |-> b.company,
   location |-> b.location,
   description |-> b.description,
   requirements |-> b.requirements[1],
   salary |-> b.salary[1],
   employmentType |-> b.employmentType,
   category |-> b.category,
   contactEmail |-> b.contactEmail,
   updatedAt |-> None,
   status |-> ACTIVE,
   applicants |-> <<>>]

C7_Matches(job, b, id, t) ==
  /\ [f \in DOMAIN job \ {"createdAt"} |-> job[f]] = C7_Expected(b, id)
  /\ job.createdAt * NsPerMs <= t
  /\ t < (job.createdAt + 1) * NsPerMs

C7_Step ==
  /\ \A b \in CreateBodies :
       (res'.status = 200 /\ CreateJob(b)) =>
         /\ res'.body.id \notin DOMAIN jobsStorage \cup deleted
         /\ res'.body.id \notin DOMAIN applicationsStorage
         /\ C7_Matches(res'.body, b, res'.body.id, time)
         /\ GetJobResponse(jobsStorage', res'.body.id) = res'
  /\ \A id \in DOMAIN pristine :
       (StorageUnchanged /\ GetJob(id)) =>
         /\ res'.status = 200
         /\ C7_Matches(res'.body, pristine[id].input, id, pristine[id].at)

\* C7: a job created from a valid body and not written since is returned by
\* GET /jobs/:id with the body's nine fields, a fresh id, createdAt the
\* millisecond of its creation, updatedAt none, status ACTIVE and no
\* applicants, whatever id, status or applicants the body carried.
C7_CreateThenGet == [][C7_Step]_vars

\* A job created from a body carrying id, status and applicants, after the
\* clock advanced, has been fetched after a later creation.
C7_Witness ==
  /\ res.status = 200
  /\ \E id \in DOMAIN pristine :
       /\ res.body = jobsStorage[id]
       /\ id < uuidCounter
       /\ IsSome(pristine[id].input.status)
       /\ pristine[id].at > 0
       /\ Cardinality(DOMAIN jobsStorage) = 2

\* ---------------------------------------------------------------------- C8
Supplied(p) == IsSome(p)
IsList(r) == "items" \in DOMAIN r.body

\* The claim's result: the stored jobs, in storage order, that satisfy every
\* supplied filter, category compared case-insensitively and the enumerated
\* fields exactly.
C8_ClaimedList(q) ==
  LET Match(job) ==
        /\ Supplied(q.category) =>
             toLowerCase(job.category) = toLowerCase(q.category[1])
        /\ Supplied(q.employmentType) => job.employmentType = q.employmentType[1]
        /\ Supplied(q.status) => job.status = q.status[1]
  IN SelectSeq(values(jobsStorage), Match)

\* The amended result: a filter counts as supplied when it is non-empty
\* after trimming; the category filter is trimmed and lower-cased, the
\* enumerated filters are trimmed and upper-cased.
C8_AmendedList(q) ==
  LET On(p) == IsSome(p) /\ trim(p[1]) /= <<>>
      Match(job) ==
        /\ On(q.category) =>
             toLowerCase(job.category) = toLowerCase(trim(q.category[1]))
        /\ On(q.employmentType) =>
             job.employmentType = toUpperCase(trim(q.employmentType[1]))
        /\ On(q.status) => job.status = toUpperCase(trim(q.status[1]))
  IN SelectSeq(values(jobsStorage), Match)

C9_Fixed ==
  {"id", "company", "location", "employmentType", "category", "contactEmail",
   "createdAt", "applicants"}

\* The effect of a successful update on the record GET then returns, with
\* "supplied" decided by HasTitle, HasDescription and HasStatus.
C9_Effect(old, new, b, HasTitle, HasDescription, HasStatus) ==
  /\ new.title = IF HasTitle THEN b.title.val ELSE old.title
  /\ new.description = IF HasDescription THEN b.description.val ELSE old.description
  /\ new.requirements =
       IF IsSome(b.requirements) THEN b.requirements[1] ELSE old.requirements
  /\ new.salary = IF IsSome(b.salary) THEN b.salary[1] ELSE old.salary
  /\ new.status = IF HasStatus THEN b.status[1] ELSE old.status
  /\ \A f \in C9_Fixed : new[f] = old[f]
  /\ IsSome(new.updatedAt)
  /\ new.updatedAt[1] >= new.createdAt

C9_StatusEnumerated ==
  \A j \in DOMAIN jobsStorage : jobsStorage[j].status \in JobStatuses

\* C9 as stated: every supplied field shows its new value, and every status
\* outside the three values is refused.
C9_Original ==
  [][\A id \in DOMAIN jobsStorage, b \in UpdateBodies :
       UpdateJob(id, b) =>
         /\ (IsSome(b.status) /\ b.status[1] \notin JobStatuses) => res'.status = 400
         /\ res'.status = 200 =>
              C9_Effect(jobsStorage[id], GetJobResponse(jobsStorage', id).body, b,
                        b.title.type /= "undefined",
                        b.description.type /= "undefined",
                        IsSome(b.status))]_vars

\* C9 amended: a successful PUT /jobs/:id replaces each supplied field among
\* title, description, requirements, salary and status, where an empty
\* title, description or status counts as not supplied, sets updatedAt to a
\* time >= createdAt and leaves every other field as it was; a non-empty
\* status outside ACTIVE, CLOSED, DRAFT is answered 400, and a stored
\* status is always one of the three.
C9_UpdateFrame ==
  [][/\ \A id \in DOMAIN jobsStorage, b \in UpdateBodies :
          UpdateJob(id, b) =>
            /\ (NonEmpty(b.status) /\ b.status[1] \notin JobStatuses)
                 => (res'.status = 400 /\ StorageUnchanged)
            /\ res'.status = 200 =>
                 /\ GetJobResponse(jobsStorage', id).status = 200
                 /\ C9_Effect(jobsStorage[id],
                              GetJobResponse(jobsStorage', id).body, b,
                              b.title.type = "string" /\ b.title.val /= "",
                              b.description.type = "string" /\ b.description.val /= "",
                              IsSome(b.status) /\ b.status[1] /= <<>>)
                 /\ \A k \in DOMAIN jobsStorage \ {id} :
                      /\ k \in DOMAIN jobsStorage'
                      /\ jobsStorage'[k] = jobsStorage[k]
     /\ C9_StatusEnumerated']_vars

\* A job was closed by an update made after the clock advanced.
C9_Witness ==
  /\ res.status = 200
  /\ \E j \in DOMAIN jobsStorage :
       /\ res.body = jobsStorage[j]
       /\ jobsStorage[j].status = CLOSED
       /\ IsSome(jobsStorage[j].updatedAt)
       /\ jobsStorage[j].updatedAt[1] > jobsStorage[j].createdAt
       /\ jobsStorage[j].applicants /= <<>>

\* --------------------------------------------------------------------- C10
C10_Consistent ==
  /\ \A a \in DOMAIN applicationsStorage :
       applicationsStorage[a].jobId \in DOMAIN jobsStorage =>
         \E i \in 1..Len(jobsStorage[applicationsStorage[a].jobId].applicants) :
           jobsStorage[applicationsStorage[a].jobId].applicants[i] = a
  /\ \A j \in DOMAIN jobsStorage :
       \A i \in 1..Len(jobsStorage[j].applicants) :
         jobsStorage[j].applicants[i] \in DOMAIN applicationsStorage

\* C10: a request answered 400 or 404 leaves job storage and application
\* storage as they were, so stored applications and applicants lists stay
\* in step.
C10_ErrorsChangeNothing ==
  [][/\ res'.status \in {400, 404} => StorageUnchanged
     /\ C10_Consistent']_vars

\* An apply that lacks a required field, to a job that already has an
\* application, has just been refused.
C10_Witness ==
  /\ res = Reply(400, Text("Applicant name, email, and resume URL are required."))
  /\ applicationsStorage /= EmptyMap
  /\ \A j \in DOMAIN jobsStorage : jobsStorage[j].applicants /= <<>>
  /\ jobsStorage /= EmptyMap

====
